---- MODULE Spec2Model ----
(***************************************************************************)
(* Model of test_c/false_positive_safe.c: the function safe_examples, its  *)
(* 32-byte automatic buffer, and the three library calls it makes.         *)
(*                                                                         *)
(* Bytes are numbers 0..255 (ASCII codes), C strings are sequences of      *)
(* bytes without their terminating NUL, and buf is a function on the       *)
(* indices 0..BufSize-1.  Each call appends one record to log: the buffer  *)
(* indices it wrote and read, the source indices it read, its return value *)
(* and whether its documented preconditions held.                          *)
(***************************************************************************)
EXTENDS Integers, Sequences, FiniteSets, TLC

VARIABLES pc, buf, buf0, log, stdout, calls, ub, arg

vars == <<pc, buf, buf0, log, stdout, calls, ub, arg>>

(* ------------------------------ bounds -------------------------------- *)

\* Number of consecutive calls of safe_examples the model follows.
MaxCalls == 2

\* Longest "%s" argument tried when the snprintf call is checked for every
\* length of the formatted text (specification SpecFmt).
MaxArgLen == 30

\* Values an indeterminate (never initialised) byte of buf may hold.
GarbageBytes == {0, 65, 255}

(* ------------------------- program constants -------------------------- *)

\* char buf[32];
BufSize == 32

BufIdx == 0 .. (BufSize - 1)

\* "Hello %s"
HelloFmt == <<72, 101, 108, 108, 111, 32, 37, 115>>

\* "World"
World == <<87, 111, 114, 108, 100>>

\* "Value: %d\n"
ValueFmt == <<86, 97, 108, 117, 101, 58, 32, 37, 100, 10>>

\* "abcd" (the literal is the 5-byte object a b c d NUL)
Abcd == <<97, 98, 99, 100>>

StrArg(s) == [type |-> "str", str |-> s, int |-> 0]

IntArg(n) == [type |-> "int", str |-> <<>>, int |-> n]

Min(a, b) == IF a < b THEN a ELSE b

(* ---------------------------- call sites ------------------------------ *)

\* Plausible slip: sizeof of the wrong thing, twice the real capacity.
SnprintfSizeDoubled == BufSize + BufSize

\* snprintf(buf, sizeof(buf), ...): the size argument.
SnprintfSize == BufSize

\* snprintf(..., "Hello %s", ...): the format.
SnprintfFmt == HelloFmt

\* Plausible slip: the "%s" argument is forgotten.
SnprintfArgsMissing == <<>>

\* snprintf(..., "World"): the variadic arguments.  arg is "World" in the
\* program; SpecFmt varies it to exercise every formatted length.
SnprintfArgs == <<StrArg(arg)>>

\* The C string held in a buffer: the bytes before its first NUL (all of
\* them when it holds none).
CStr(mem) ==
    LET nul == {i \in BufIdx : mem[i] = 0}
        len == IF nul = {} THEN BufSize
               ELSE CHOOSE i \in nul : \A j \in nul : i <= j
    IN [k \in 1 .. len |-> mem[k - 1]]

\* Plausible slip: printf(buf), the buffer's text used as the format.
PrintfFmtFromBuf == CStr(buf)

\* printf("Value: %d\n", ...): the format, a literal.
PrintfFmt == ValueFmt

\* Plausible slip: a value kept across calls is printed.
PrintfArgsCounter == <<IntArg(42 + calls)>>

\* printf(..., 42): the variadic arguments.
PrintfArgs == <<IntArg(42)>>

\* Plausible slip: one byte more than the destination holds.
MemcpyNOverflow == BufSize + 1

\* Plausible slip: the literal's NUL is copied too (sizeof "abcd").
MemcpyNWithNul == Len(Abcd) + 1

\* memcpy(..., ..., 4): the byte count.
MemcpyN == 4

\* Plausible slip: the source is the destination buffer itself.
MemcpySrcInBuf == [obj |-> "buf", off |-> 2]

\* memcpy(..., "abcd", ...): the source pointer.
MemcpySrc == [obj |-> "abcd", off |-> 0]

\* Plausible slip: the copy lands further into the buffer.
MemcpyDstShifted == [obj |-> "buf", off |-> 8]

\* memcpy(buf, ..., ...): the destination pointer.
MemcpyDst == [obj |-> "buf", off |-> 0]

(* --------------------------- the C library ---------------------------- *)

RECURSIVE Decimal(_)
\* Decimal digits of a natural number, most significant first.
Decimal(n) == IF n < 10 THEN <<48 + n>>
              ELSE Decimal(n \div 10) \o <<48 + (n % 10)>>

\* What %d prints for an int.
IntToStr(v) == IF v < 0 THEN <<45>> \o Decimal(0 - v) ELSE Decimal(v)

\* The argument type a conversion character expects.
ConvType(c) == IF c = 115 THEN "str" ELSE IF c = 100 THEN "int" ELSE "unknown"

RECURSIVE Conversions(_)
\* The argument types a format consumes, in order ("%%" consumes none).
Conversions(fmt) ==
    IF fmt = <<>> THEN <<>>
    ELSE IF Head(fmt) # 37 THEN Conversions(Tail(fmt))
    ELSE IF Len(fmt) = 1 THEN <<"unknown">>
    ELSE IF fmt[2] = 37 THEN Conversions(Tail(Tail(fmt)))
    ELSE <<ConvType(fmt[2])>> \o Conversions(Tail(Tail(fmt)))

\* The arguments supply what the format consumes: the same count and types.
\* (More arguments than conversions are evaluated and ignored.)
ArgsMatch(fmt, args) ==
    LET c == Conversions(fmt) IN
    /\ Len(c) <= Len(args)
    /\ \A i \in 1 .. Len(c) : c[i] = args[i].type

\* The text one argument renders to.
Render(a) == IF a.type = "str" THEN a.str ELSE IntToStr(a.int)

RECURSIVE Format(_, _, _)
\* The text printf-family functions produce.  A conversion with no matching
\* argument is undefined; it then yields the indeterminate byte g.
Format(fmt, args, g) ==
    IF fmt = <<>> THEN <<>>
    ELSE IF Head(fmt) # 37 THEN <<Head(fmt)>> \o Format(Tail(fmt), args, g)
    ELSE IF Len(fmt) = 1 THEN <<g>>
    ELSE IF fmt[2] = 37 THEN <<37>> \o Format(Tail(Tail(fmt)), args, g)
    ELSE IF args = <<>> THEN <<g>> \o Format(Tail(Tail(fmt)), args, g)
    ELSE IF Head(args).type # ConvType(fmt[2])
         THEN <<g>> \o Format(Tail(Tail(fmt)), Tail(args), g)
    ELSE Render(Head(args)) \o Format(Tail(Tail(fmt)), Tail(args), g)

\* Store bytes (a sequence) at indices off, off+1, ... ; a store outside the
\* array is not kept (it is reported through the set of indices written).
Store(mem, off, bytes) ==
    [i \in BufIdx |-> IF i >= off /\ i < off + Len(bytes)
                      THEN bytes[i - off + 1] ELSE mem[i]]

\* snprintf without the terminating NUL (strncpy-like slip).
SnprintfNoNul(mem, size, fmt, args, g) ==
    LET text == Format(fmt, args, g)
        kept == IF size = 0 THEN <<>>
                ELSE SubSeq(text, 1, Min(Len(text), size - 1))
    IN [mem |-> Store(mem, 0, kept),
        dst |-> 0 .. (Len(kept) - 1),
        rv  |-> Len(text),
        pre |-> ArgsMatch(fmt, args) /\ size <= BufSize]

\* snprintf(s, n, fmt, ...): at most n bytes stored, the last one a NUL;
\* returns the length the whole text has.
Snprintf(mem, size, fmt, args, g) ==
    LET text == Format(fmt, args, g)
        kept == IF size = 0 THEN <<>>
                ELSE SubSeq(text, 1, Min(Len(text), size - 1)) \o <<0>>
    IN [mem |-> Store(mem, 0, kept),
        dst |-> 0 .. (Len(kept) - 1),
        rv  |-> Len(text),
        pre |-> ArgsMatch(fmt, args) /\ size <= BufSize]

\* Size of the object a pointer points into.
ObjSize(obj) == IF obj = "buf" THEN BufSize ELSE Len(Abcd) + 1

\* Byte i of an object; outside the object the read is undefined and
\* yields the indeterminate byte g.
ObjByte(mem, obj, i, g) ==
    IF i < 0 \/ i >= ObjSize(obj) THEN g
    ELSE IF obj = "buf" THEN mem[i]
    ELSE IF i < Len(Abcd) THEN Abcd[i + 1] ELSE 0

\* memcpy(dst, src, n): n bytes from src to dst, nothing else; the objects
\* must not overlap and both ranges must lie inside their objects.
Memcpy(mem, dst, src, n, g) ==
    LET bytes == [k \in 1 .. n |-> ObjByte(mem, src.obj, src.off + k - 1, g)]
        drng  == dst.off .. (dst.off + n - 1)
        srng  == src.off .. (src.off + n - 1)
    IN [mem |-> Store(mem, dst.off, bytes),
        dst |-> drng,
        src |-> srng,
        rd  |-> IF src.obj = "buf" THEN srng ELSE {},
        pre |-> /\ drng \subseteq 0 .. (ObjSize(dst.obj) - 1)
                /\ srng \subseteq 0 .. (ObjSize(src.obj) - 1)
                /\ (src.obj = dst.obj => drng \cap srng = {})]

(* --------------------------- safe_examples ---------------------------- *)

\* A buffer whose every byte is g.
Fill(g) == [i \in BufIdx |-> g]

\* The contents char buf[32] may have at entry: it is not initialised, so
\* it holds whatever the stack held (what the previous call left, or other
\* bytes).
Indeterminate(prev) ==
    {prev} \cup {Fill(g) : g \in GarbageBytes}
           \cup {[Fill(g) EXCEPT ![i] = h] :
                     g \in GarbageBytes, h \in GarbageBytes, i \in BufIdx}

\* Plausible slip: the memcpy and the printf statements are swapped.
StmtAfterSwapped(p) ==
    IF p = "snprintf" THEN "memcpy"
    ELSE IF p = "memcpy" THEN "printf"
    ELSE "return"

\* The statement that follows statement p in the body.
StmtAfter(p) ==
    IF p = "snprintf" THEN "printf"
    ELSE IF p = "printf" THEN "memcpy"
    ELSE "return"

\* One executed call, as recorded in log.
Entry(op, dstObj, dst, rd, srcObj, src, n, rv, pre, fmt, args, out) ==
    [op |-> op, dstObj |-> dstObj, dst |-> dst, rd |-> rd,
     srcObj |-> srcObj, src |-> src, n |-> n, rv |-> rv, pre |-> pre,
     fmt |-> fmt, args |-> args, out |-> out]

\* Entry to safe_examples: the frame with buf is created.
Enter ==
    /\ pc = "idle"
    /\ calls < MaxCalls
    /\ buf' \in Indeterminate(buf)
    /\ buf0' = buf'
    /\ log' = <<>>
    /\ pc' = "snprintf"
    /\ UNCHANGED <<stdout, calls, ub, arg>>

\* snprintf(buf, sizeof(buf), "Hello %s", "World");
CallSnprintf ==
    /\ pc = "snprintf"
    /\ \E g \in GarbageBytes :
         LET r == Snprintf(buf, SnprintfSize, SnprintfFmt, SnprintfArgs, g) IN
         /\ buf' = r.mem
         /\ log' = Append(log, Entry("snprintf", "buf", r.dst, {}, "none", {},
                                     SnprintfSize, r.rv, r.pre,
                                     SnprintfFmt, SnprintfArgs, <<>>))
         /\ ub' = (ub \/ ~r.pre \/ ~(r.dst \subseteq BufIdx))
    /\ pc' = StmtAfter(pc)
    /\ UNCHANGED <<buf0, stdout, calls, arg>>

\* printf("Value: %d\n", 42);
CallPrintf ==
    /\ pc = "printf"
    /\ \E g \in GarbageBytes :
         LET out == Format(PrintfFmt, PrintfArgs, g)
             pre == ArgsMatch(PrintfFmt, PrintfArgs) IN
         /\ stdout' = stdout \o out
         /\ log' = Append(log, Entry("printf", "none", {}, {}, "none", {},
                                     0, Len(out), pre,
                                     PrintfFmt, PrintfArgs, out))
         /\ ub' = (ub \/ ~pre)
    /\ pc' = StmtAfter(pc)
    /\ UNCHANGED <<buf, buf0, calls, arg>>

\* memcpy(buf, "abcd", 4);
CallMemcpy ==
    /\ pc = "memcpy"
    /\ \E g \in GarbageBytes :
         LET r == Memcpy(buf, MemcpyDst, MemcpySrc, MemcpyN, g) IN
         /\ buf' = r.mem
         /\ log' = Append(log, Entry("memcpy", MemcpyDst.obj, r.dst, r.rd,
                                     MemcpySrc.obj, r.src, MemcpyN, 0, r.pre,
                                     <<>>, <<>>, <<>>))
         /\ ub' = (ub \/ ~r.pre)
    /\ pc' = StmtAfter(pc)
    /\ UNCHANGED <<buf0, stdout, calls, arg>>

\* The closing brace: the function returns and buf's lifetime ends.
Return ==
    /\ pc = "return"
    /\ pc' = "idle"
    /\ calls' = calls + 1
    /\ UNCHANGED <<buf, buf0, log, stdout, ub, arg>>

Init ==
    /\ pc = "idle"
    /\ buf \in {Fill(g) : g \in GarbageBytes}
    /\ buf0 = buf
    /\ log = <<>>
    /\ stdout = <<>>
    /\ calls = 0
    /\ ub = FALSE
    /\ arg = World

Next == Enter \/ CallSnprintf \/ CallPrintf \/ CallMemcpy \/ Return

Spec == Init /\ [][Next]_vars

\* The body is straight-line code on one thread: once entered, every
\* statement is eventually executed.
FairSpec == Spec /\ WF_vars(CallSnprintf \/ CallPrintf \/ CallMemcpy \/ Return)

RECURSIVE Cycle(_, _)
\* The first n bytes of s s s ...
Cycle(s, n) == IF n <= Len(s) THEN SubSeq(s, 1, n) ELSE s \o Cycle(s, n - Len(s))

\* "%s" arguments of every length 0..MaxArgLen ("World" among them).
ArgStrings == {Cycle(World, n) : n \in 0 .. MaxArgLen}

InitFmt ==
    /\ pc = "idle"
    /\ buf \in {Fill(g) : g \in GarbageBytes}
    /\ buf0 = buf
    /\ log = <<>>
    /\ stdout = <<>>
    /\ calls = 0
    /\ ub = FALSE
    /\ arg \in ArgStrings

\* The program with the snprintf call's "%s" argument of any length.
SpecFmt == InitFmt /\ [][Next]_vars

(* ------------------------------ claims -------------------------------- *)

\* "Hello World"
HelloWorld == <<72, 101, 108, 108, 111, 32>> \o World

\* "Value: 42\n"
Value42 == <<86, 97, 108, 117, 101, 58, 32, 52, 50, 10>>

\* "abcdo World"
AbcdoWorld == <<97, 98, 99, 100, 111, 32, 87, 111, 114, 108, 100>>

\* The names of the calls made so far in this invocation, in order.
Ops == [i \in DOMAIN log |-> log[i].op]

BodyOps == <<"snprintf", "printf", "memcpy">>

RECURSIVE Repeat(_, _)
Repeat(s, n) == IF n = 0 THEN <<>> ELSE s \o Repeat(s, n - 1)

\* C1: every call of safe_examples made so far (snprintf, printf, memcpy)
\* wrote into buf only at indices 0..31, and wrote strictly fewer than 32
\* bytes of it.
C1_WritesBounded ==
    \A i \in DOMAIN log :
        /\ log[i].dst \subseteq BufIdx
        /\ Cardinality(log[i].dst) < BufSize

\* C1 witness: all three calls have been made and buf was written.
C1_Witness ==
    /\ pc = "return"
    /\ Ops = BodyOps
    /\ log[1].dst # {}
    /\ log[3].dst # {}

\* C2: the snprintf call passes the capacity of buf (32) as its size, and
\* whatever the length of the formatted text it stores at most 32 bytes,
\* all inside buf, the terminating NUL among them.
C2_SnprintfBounded ==
    Len(log) >= 1 =>
        /\ log[1].op = "snprintf"
        /\ log[1].n = BufSize
        /\ log[1].dst \subseteq BufIdx
        /\ Cardinality(log[1].dst) <= BufSize
        /\ Cardinality(log[1].dst) = Min(log[1].rv, BufSize - 1) + 1
        /\ (pc = "printf" => buf[Min(log[1].rv, BufSize - 1)] = 0)

\* C2 witness: the formatted text was longer than buf and was cut to 32
\* bytes.
C2_Witness ==
    /\ pc = "printf"
    /\ log[1].rv >= BufSize
    /\ log[1].dst = BufIdx
    /\ buf[BufSize - 1] = 0

\* C3: the memcpy call copies exactly 4 bytes into buf from index 0 on, and
\* that length is less than the capacity of buf.
C3_MemcpyFour ==
    Len(log) >= 3 =>
        /\ log[3].op = "memcpy"
        /\ log[3].dstObj = "buf"
        /\ log[3].n = 4
        /\ log[3].dst = 0 .. 3
        /\ log[3].n < BufSize

\* C3 witness: memcpy has run and buf starts with "abcd".
C3_Witness ==
    /\ pc = "return"
    /\ Len(log) = 3
    /\ \A k \in 1 .. 4 : buf[k - 1] = Abcd[k]

\* C4: the printf call's format is the literal "Value: %d\n", which has
\* exactly one conversion, %d; exactly one argument is supplied, the int
\* 42; and the call prints exactly "Value: 42\n".
C4_PrintfLiteral ==
    Len(log) >= 2 =>
        /\ log[2].op = "printf"
        /\ log[2].fmt = ValueFmt
        /\ Conversions(log[2].fmt) = <<"int">>
        /\ Len(log[2].args) = 1
        /\ log[2].args[1].type = "int"
        /\ log[2].args[1].int = 42
        /\ log[2].out = Value42

\* C4 witness: printf has run, in the second invocation, on a buffer that
\* differs from the one it began with.
C4_Witness ==
    /\ pc = "memcpy"
    /\ Len(log) = 2
    /\ calls = 1
    /\ buf # buf0

\* C5: no execution reaches an error state: every call made had its
\* documented preconditions met, no undefined behaviour happened, and
\* control is always at one of the statements of the straight-line body.
C5_NoErrorPath ==
    /\ ~ub
    /\ \A i \in DOMAIN log : log[i].pre
    /\ pc \in {"idle", "snprintf", "printf", "memcpy", "return"}
    /\ Len(log) <= 3

\* C5 witness: the function ran to its end with all three calls made.
C5_Witness ==
    /\ pc = "return"
    /\ Ops = BodyOps
    /\ \A i \in 1 .. 3 : log[i].pre

\* C6: the only storage safe_examples writes is buf; every invocation
\* starts with nothing carried over but the indeterminate buffer, and
\* prints "Value: 42\n" whatever the buffer holds, so after n calls stdout
\* is n copies of that line.
C6_NoStateAcrossCalls ==
    /\ \A i \in DOMAIN log : log[i].dstObj \in {"buf", "none"}
    /\ \A i \in DOMAIN log : log[i].rd = {}
    /\ (pc \in {"idle", "snprintf", "printf"} => stdout = Repeat(Value42, calls))
    /\ (pc \in {"memcpy", "return"} => stdout = Repeat(Value42, calls + 1))
    /\ (pc = "snprintf" => log = <<>> /\ buf0 = buf)

\* C6 witness: two invocations have returned, the second of which started
\* on a buffer that was not the one the first left behind.
C6_Witness ==
    /\ pc = "idle"
    /\ calls = 2
    /\ buf0[BufSize - 1] # buf0[BufSize - 2]
    /\ stdout = Value42 \o Value42

\* C7: every invocation performs snprintf, then printf, then memcpy, each
\* exactly once and in that order, and then returns: the calls made so far
\* are always the prefix of that sequence that the position in the body
\* says, and an invocation that has begun always returns.
C7_StraightLine ==
    /\ [](/\ Len(log) <= 3
          /\ Ops = SubSeq(BodyOps, 1, Len(log))
          /\ (pc = "snprintf" => Len(log) = 0)
          /\ (pc = "printf" => Len(log) = 1)
          /\ (pc = "memcpy" => Len(log) = 2)
          /\ (pc = "return" => Len(log) = 3))
    /\ [][pc = "return" => pc' = "idle" /\ calls' = calls + 1]_vars
    /\ [](pc = "snprintf" => <>(pc = "idle" /\ Ops = BodyOps))

\* C7 witness: an invocation has returned after the three calls.
C7_Witness ==
    /\ pc = "idle"
    /\ calls = 1
    /\ Ops = BodyOps

\* C8: right after the snprintf call buf[0..10] is "Hello World" and
\* buf[11] is NUL; the text needs 12 bytes, it is not truncated, and bytes
\* 12..31 are not written (they hold what they held at entry).
C8_HelloWorld ==
    pc = "printf" =>
        /\ \A k \in 1 .. 11 : buf[k - 1] = HelloWorld[k]
        /\ buf[11] = 0
        /\ log[1].rv = 11
        /\ log[1].rv + 1 <= BufSize
        /\ log[1].dst = 0 .. 11
        /\ \A i \in 12 .. 31 : buf[i] = buf0[i]

\* C8 witness: snprintf has just run on a buffer whose bytes 11 and 12 were
\* not NUL at entry.
C8_Witness ==
    /\ pc = "printf"
    /\ buf0[11] # 0
    /\ buf0[12] # 0
    /\ buf[11] = 0

\* C9: the memcpy call changes only buf[0..3]; when safe_examples returns
\* buf holds the string "abcdo World", still terminated by the NUL that
\* snprintf left at index 11, and bytes 12..31 have been neither written
\* nor read.
C9_MemcpyFrame ==
    /\ [][pc = "memcpy" => \A i \in 4 .. 31 : buf'[i] = buf[i]]_vars
    /\ [](pc = "return" =>
            /\ CStr(buf) = AbcdoWorld
            /\ buf[11] = 0
            /\ \A i \in 12 .. 31 : buf[i] = buf0[i]
            /\ \A e \in DOMAIN log :
                  /\ log[e].dst \cap (12 .. 31) = {}
                  /\ log[e].rd \cap (12 .. 31) = {})

\* C9 witness: the function is about to return and byte 12, never
\* written, still holds a non-NUL byte.
C9_Witness ==
    /\ pc = "return"
    /\ buf[4] = 111
    /\ buf[12] # 0
    /\ buf0[0] # 97

\* C10: the memcpy call reads exactly indices 0..3 of the 5-byte literal
\* "abcd" (not its NUL at index 4), and its source and destination are
\* distinct objects.
C10_MemcpySource ==
    Len(log) >= 3 =>
        /\ log[3].srcObj = "abcd"
        /\ ObjSize(log[3].srcObj) = 5
        /\ log[3].src = 0 .. 3
        /\ log[3].src \subseteq 0 .. (ObjSize(log[3].srcObj) - 1)
        /\ 4 \notin log[3].src
        /\ log[3].srcObj # log[3].dstObj
        /\ log[3].rd = {}

\* C10 witness: memcpy has run.
C10_Witness ==
    /\ pc = "return"
    /\ log[3].op = "memcpy"
    /\ log[3].src # {}

====
